---- MODULE Spec2Model ----
(***************************************************************************)
(* Dominator tree, dominance frontiers and post-dominance frontiers of a   *)
(* control-flow graph, as computed by                                      *)
(* include/crab/analysis/graphs/dominance.hpp.                             *)
(*                                                                         *)
(* A graph G is a record [n |-> number of vertices, E |-> set of edges];   *)
(* its vertices are 1..G.n, and vertices(g), out_edges(u,g), in_edges(n,g) *)
(* enumerate in ascending node order.  Every graph within the bounds,      *)
(* with every entry and every exit (or none), is an initial state, so      *)
(* every enumeration order that a relabelling of the nodes yields is       *)
(* covered.                                                                *)
(***************************************************************************)
EXTENDS Integers, Sequences, FiniteSets

\* Spec: graphs of NumNodes vertices and at most MaxEdges edges
NumNodes == 3
MaxEdges == 4

\* WideSpec: graphs of WideNodes vertices and at most WideEdges edges
WideNodes == 4
WideEdges == 3

\* graph_traits<G>::null_vertex(): the "no node" sentinel
NullVertex == 0

NodesOf(G) == 1..G.n

RECURSIVE EdgeSets(_, _)
EdgeSets(n, k) ==
  IF k = 0 THEN {{}}
  ELSE LET S == EdgeSets(n, k - 1)
       IN  S \cup {s \cup {e} : s \in S, e \in (1..n) \X (1..n)}

\* the sequence of the elements of a set of nodes, ascending
SortedSeq(S) ==
  [k \in 1..Cardinality(S) |-> CHOOSE x \in S : Cardinality({y \in S : y < x}) = k - 1]

\* vertices(g)
Vertices(G) == SortedSeq(NodesOf(G))

\* targets of out_edges(u, g), in enumeration order
OutEdges(G, u) == SortedSeq({v \in NodesOf(G) : <<u, v>> \in G.E})

\* sources of in_edges(n, g), in enumeration order
InEdges(G, n) == SortedSeq({u \in NodesOf(G) : <<u, n>> \in G.E})

(***************************************************************************)
(* dominator_tree: the property maps it builds, and the Lengauer-Tarjan    *)
(* computation it runs on them (boost/graph/dominator_tree.hpp, the        *)
(* seven-argument lengauer_tarjan_dominator_tree).                         *)
(***************************************************************************)

\* df_num: every vertex starts with depth-first number 0
InitDfNum(G) == [v \in NodesOf(G) |-> 0]

\* parent, and dom_tree_pred_vector: every vertex starts at null_vertex
InitParent(G) == [v \in NodesOf(G) |-> NullVertex]

\* vertices_by_df_num: a copy of parent, indexed by depth-first number
InitByDfNum(G) == [k \in 0..(G.n - 1) |-> NullVertex]

\* depth_first_visit from entry: on discover_vertex, stamp ++time into df_num
\* and record the vertex in vertices_by_df_num; on tree_edge, record the
\* parent.  time starts at the maximum of the unsigned type, so the first
\* ++time is 0: st.time is the number of vertices discovered so far.
RECURSIVE DfsVisit(_, _, _), DfsEdges(_, _, _, _, _)
DfsVisit(G, u, st) ==
  LET st1 == [st EXCEPT !.dfnum[u] = st.time,
                        !.byNum[st.time] = u,
                        !.seen = st.seen \cup {u},
                        !.time = st.time + 1]
  IN  DfsEdges(G, u, OutEdges(G, u), 1, st1)

DfsEdges(G, u, out, i, st) ==
  IF i > Len(out) THEN st
  ELSE IF out[i] \in st.seen THEN DfsEdges(G, u, out, i + 1, st)
  ELSE DfsEdges(G, u, out, i + 1,
                DfsVisit(G, out[i], [st EXCEPT !.parent[out[i]] = u]))

DepthFirstVisit(G, en) ==
  DfsVisit(G, en, [dfnum |-> InitDfNum(G), parent |-> InitParent(G),
                   byNum |-> InitByDfNum(G), seen |-> {}, time |-> 0])

\* dominator_visitor's maps: semi, ancestor, samedom, best, buckets, and the
\* dominator-tree predecessor map it writes
InitVisitor(G) ==
  [semi     |-> [v \in NodesOf(G) |-> NullVertex],
   ancestor |-> [v \in NodesOf(G) |-> NullVertex],
   samedom  |-> [v \in NodesOf(G) |-> NullVertex],
   best     |-> [v \in NodesOf(G) |-> NullVertex],
   bucket   |-> [v \in NodesOf(G) |-> <<>>],
   dom      |-> InitParent(G)]

\* ancestor_with_lowest_semi_(v): path compression; the result is best[v] in
\* the returned maps
RECURSIVE AncestorWithLowestSemi(_, _, _)
AncestorWithLowestSemi(v, vs, dfnum) ==
  LET a == vs.ancestor[v]
  IN  IF vs.ancestor[a] # NullVertex
      THEN LET vs1 == AncestorWithLowestSemi(a, vs, dfnum)
               b   == vs1.best[a]
               vs2 == [vs1 EXCEPT !.ancestor[v] = vs1.ancestor[a]]
           IN  IF dfnum[vs2.semi[b]] < dfnum[vs2.semi[vs2.best[v]]]
               THEN [vs2 EXCEPT !.best[v] = b]
               ELSE vs2
      ELSE vs

\* a predecessor is skipped as unreachable when its depth-first number is
\* outside [0, num_vertices)
SkipPredecessor(G, v, dfnum) == dfnum[v] < 0 \/ dfnum[v] >= G.n

\* the loop over in_edges(n, g) that computes the semidominator of n;
\* r = [s |-> candidate, vs |-> maps]
RECURSIVE SemiLoop(_, _, _, _, _, _)
SemiLoop(G, n, ins, i, r, dfnum) ==
  IF i > Len(ins) THEN r
  ELSE LET v == ins[i]
       IN  IF SkipPredecessor(G, v, dfnum) THEN SemiLoop(G, n, ins, i + 1, r, dfnum)
           ELSE LET vs1 == IF dfnum[v] <= dfnum[n] THEN r.vs
                           ELSE AncestorWithLowestSemi(v, r.vs, dfnum)
                    s2  == IF dfnum[v] <= dfnum[n] THEN v
                           ELSE vs1.semi[vs1.best[v]]
                    s1  == IF dfnum[s2] < dfnum[r.s] THEN s2 ELSE r.s
                IN  SemiLoop(G, n, ins, i + 1, [s |-> s1, vs |-> vs1], dfnum)

\* the loop over bucket[p]: the dominator of v is p, or that of samedom[v]
RECURSIVE BucketLoop(_, _, _, _, _)
BucketLoop(p, bucket, i, vs, dfnum) ==
  IF i > Len(bucket) THEN vs
  ELSE LET v   == bucket[i]
           vs1 == AncestorWithLowestSemi(v, vs, dfnum)
           y   == vs1.best[v]
           vs2 == IF vs1.semi[y] = vs1.semi[v]
                  THEN [vs1 EXCEPT !.dom[v] = p]
                  ELSE [vs1 EXCEPT !.samedom[v] = y]
       IN  BucketLoop(p, bucket, i + 1, vs2, dfnum)

\* dominator_visitor::operator()(n, ...)
Visitor(G, en, n, vs, dfs) ==
  IF n = en THEN vs
  ELSE LET p   == dfs.parent[n]
           r   == SemiLoop(G, n, InEdges(G, n), 1, [s |-> p, vs |-> vs], dfs.dfnum)
           s   == r.s
           vs1 == [r.vs EXCEPT !.semi[n] = s,
                               !.bucket[s] = Append(r.vs.bucket[s], n),
                               !.ancestor[n] = p,
                               !.best[n] = n]
           vs2 == BucketLoop(p, vs1.bucket[p], 1, vs1, dfs.dfnum)
       IN  [vs2 EXCEPT !.bucket[p] = <<>>]

\* first pass: the vertices in decreasing depth-first number
RECURSIVE VisitAll(_, _, _, _, _)
VisitAll(G, en, i, vs, dfs) ==
  IF i >= G.n THEN vs
  ELSE LET u == dfs.byNum[G.n - 1 - i]
       IN  VisitAll(G, en, i + 1,
                    IF u # NullVertex THEN Visitor(G, en, u, vs, dfs) ELSE vs,
                    dfs)

\* second pass: the deferred dominators, in increasing depth-first number
RECURSIVE SameDomPass(_, _, _, _, _)
SameDomPass(G, en, i, vs, dfs) ==
  IF i >= G.n THEN vs
  ELSE LET n == dfs.byNum[i]
       IN  IF n = en \/ n = NullVertex THEN SameDomPass(G, en, i + 1, vs, dfs)
           ELSE LET u == vs.samedom[n]
                IN  SameDomPass(G, en, i + 1,
                                IF u # NullVertex
                                THEN [vs EXCEPT !.dom[n] = vs.dom[u]]
                                ELSE vs,
                                dfs)

\* lengauer_tarjan_dominator_tree(g, entry, ...): dom_tree_pred_map afterwards
LengauerTarjan(G, en) ==
  LET dfs == DepthFirstVisit(G, en)
      vs  == VisitAll(G, en, 0, InitVisitor(G), dfs)
  IN  SameDomPass(G, en, 0, vs, dfs).dom

\* the value inserted into idom for v, given v's entry of dom_tree_pred_map
IdomValue(v, pred) == IF pred # NullVertex THEN pred ELSE NullVertex

\* idom.insert into a map: an existing key keeps its value
MapInsert(m, k, val) ==
  IF k \in DOMAIN m THEN m
  ELSE [x \in (DOMAIN m) \cup {k} |-> IF x = k THEN val ELSE m[x]]

RECURSIVE IdomFill(_, _, _, _)
IdomFill(G, i, dom, m) ==
  IF i > Len(Vertices(G)) THEN m
  ELSE LET v == Vertices(G)[i]
       IN  IdomFill(G, i + 1, dom, MapInsert(m, v, IdomValue(v, dom[v])))

\* the empty associative container
EmptyMap == [x \in {} |-> NullVertex]

\* dominator_tree(g, entry, idom)
DominatorTreeOf(G, en, m) == IdomFill(G, 1, LengauerTarjan(G, en), m)

(***************************************************************************)
(* graph_algo_impl::dominance: the dominance frontiers.                    *)
(***************************************************************************)

Range(q) == {q[x] : x \in DOMAIN q}

\* the empty frontier map handed in by the caller
EmptyDf == [x \in {} |-> <<>>]

\* df[k]: operator[] default-constructs the vector of a missing key
DfAt(dfm, k) ==
  IF k \in DOMAIN dfm THEN dfm
  ELSE [x \in (DOMAIN dfm) \cup {k} |-> IF x = k THEN <<>> ELSE dfm[x]]

\* variant of WhileGuard: the walk does not stop at n itself
WhileGuardNoSelf(r, n, idm) == r # NullVertex /\ r # idm[n]

\* variant of WhileGuard: the walk also stops at a runner without dominator
WhileGuardStopAtRoot(r, n, idm) ==
  r # NullVertex /\ idm[r] # NullVertex /\ r # idm[n] /\ r # n

\* the guard of the walk up the dominator tree
WhileGuard(r, n, idm) == r # NullVertex /\ r # idm[n] /\ r # n

\* variant of PushBack: push_back without the std::find test
PushBackNoFind(dfm, r, n) == [DfAt(dfm, r) EXCEPT ![r] = Append(@, n)]

\* if (std::find(df[runner]...) == df[runner].end()) df[runner].push_back(n)
PushBack(dfm, r, n) ==
  LET d1 == DfAt(dfm, r)
  IN  IF n \notin Range(d1[r]) THEN [d1 EXCEPT ![r] = Append(@, n)] ELSE d1

\* variant of Advance: a node without dominator is its own dominator
AdvanceRootIsSelf(r, idm) == IF idm[r] = NullVertex THEN r ELSE idm[r]

\* runner = idom[runner]
Advance(r, idm) == idm[r]

\* the frontier loops run to completion from position (i, j, r): vertex
\* Vertices(G)[i], its j-th in-edge, runner r
RECURSIVE RunLoop(_, _, _, _, _, _)
RunLoop(G, idm, i, j, r, dfm) ==
  LET n   == Vertices(G)[i]
      ins == InEdges(G, n)
  IN  IF WhileGuard(r, n, idm)
      THEN RunLoop(G, idm, i, j, Advance(r, idm), PushBack(dfm, r, n))
      ELSE IF j < Len(ins) THEN RunLoop(G, idm, i, j + 1, ins[j + 1], dfm)
      ELSE IF i < Len(Vertices(G)) THEN RunLoop(G, idm, i + 1, 0, NullVertex, dfm)
      ELSE dfm

\* graph_algo_impl::dominance(g, entry, df) on an empty df
DominanceOf(G, en) ==
  RunLoop(G, DominatorTreeOf(G, en, EmptyMap), 1, 0, NullVertex, EmptyDf)

\* cfg_rev<G>: the same nodes, every edge with source and target swapped
CfgRev(G) == [n |-> G.n, E |-> {<<e[2], e[1]>> : e \in G.E}]

\* the "dominator" log lines of dominator_tree, one per vertex
DominatorLog(G, idm) ==
  [k \in 1..Len(Vertices(G)) |-> <<"dominator", Vertices(G)[k], idm[Vertices(G)[k]]>>]

\* no graph
NoGraph == [n |-> 0, E |-> {}]

(***************************************************************************)
(* The state machine: one call of dominance(g, fdf) or of                  *)
(* post_dominance(g, rdf) on a graph g, the frontier loops one step at a   *)
(* time.                                                                   *)
(***************************************************************************)
VARIABLES
  g,        \* the caller's graph
  entry,    \* g.entry()
  exit,     \* g.exit(), NullVertex when g.has_exit() is false
  call,     \* the operation called: "none", "dominance", "post_dominance"
  pc,       \* "start", "impl", "loop", "done"
  wg,       \* the graph graph_algo_impl::dominance runs on
  wentry,   \* its entry
  idom,     \* the idom map of graph_algo_impl::dominance
  df,       \* the caller's frontier map (fdf, rdf)
  i,        \* position of n in vertices(g)
  j,        \* position of e in in_edges(n, g), 0 before the first
  runner,   \* runner
  outs      \* what CRAB_LOG wrote

vars == <<g, entry, exit, call, pc, wg, wentry, idom, df, i, j, runner, outs>>

\* a call on a graph of n vertices and at most k edges
InitOn(n, k) ==
  /\ g \in {[n |-> n, E |-> E] : E \in EdgeSets(n, k)}
  /\ entry \in 1..n
  /\ exit \in (1..n) \cup {NullVertex}
  /\ call = "none"
  /\ pc = "start"
  /\ wg = NoGraph
  /\ wentry = NullVertex
  /\ idom = EmptyMap
  /\ df = EmptyDf
  /\ i = 0
  /\ j = 0
  /\ runner = NullVertex
  /\ outs = <<>>

Init == InitOn(NumNodes, MaxEdges)

WideInit == InitOn(WideNodes, WideEdges)

\* dominance(g, fdf)
Dominance ==
  /\ pc = "start"
  /\ call' = "dominance"
  /\ outs' = Append(outs, <<"Dominance Frontiers">>)
  /\ wg' = g
  /\ wentry' = entry
  /\ pc' = "impl"
  /\ UNCHANGED <<g, entry, exit, idom, df, i, j, runner>>

\* variant of PostDominance: no has_exit() test
PostDominanceNoExitCheck ==
  /\ pc = "start"
  /\ call' = "post_dominance"
  /\ wg' = CfgRev(g)
  /\ wentry' = exit
  /\ outs' = Append(outs, <<"Post-Dominance Frontiers">>)
  /\ pc' = "impl"
  /\ UNCHANGED <<g, entry, exit, idom, df, i, j, runner>>

\* variant of PostDominance: the frontiers of g itself, from its exit
PostDominanceSameGraph ==
  /\ pc = "start"
  /\ call' = "post_dominance"
  /\ IF exit = NullVertex
     THEN /\ pc' = "done"
          /\ UNCHANGED <<wg, wentry, outs>>
     ELSE /\ wg' = g
          /\ wentry' = exit
          /\ outs' = Append(outs, <<"Post-Dominance Frontiers">>)
          /\ pc' = "impl"
  /\ UNCHANGED <<g, entry, exit, idom, df, i, j, runner>>

\* post_dominance(g, rdf)
PostDominance ==
  /\ pc = "start"
  /\ call' = "post_dominance"
  /\ IF exit = NullVertex
     THEN /\ pc' = "done"
          /\ UNCHANGED <<wg, wentry, outs>>
     ELSE /\ wg' = CfgRev(g)
          /\ wentry' = exit
          /\ outs' = Append(outs, <<"Post-Dominance Frontiers">>)
          /\ pc' = "impl"
  /\ UNCHANGED <<g, entry, exit, idom, df, i, j, runner>>

\* graph_algo_impl::dominance up to the frontier loops: dominator_tree
DominatorTree ==
  /\ pc = "impl"
  /\ idom' = DominatorTreeOf(wg, wentry, EmptyMap)
  /\ outs' = outs \o DominatorLog(wg, idom')
  /\ i' = 1
  /\ j' = 0
  /\ runner' = NullVertex
  /\ pc' = "loop"
  /\ UNCHANGED <<g, entry, exit, call, wg, wentry, df>>

\* one iteration of the while loop
WhileBody ==
  /\ pc = "loop"
  /\ WhileGuard(runner, Vertices(wg)[i], idom)
  /\ df' = PushBack(df, runner, Vertices(wg)[i])
  /\ runner' = Advance(runner, idom)
  /\ UNCHANGED <<g, entry, exit, call, pc, wg, wentry, idom, i, j, outs>>

\* variant of NextInEdge: df[runner] is looked up before the while loop
NextInEdgeTouch ==
  /\ pc = "loop"
  /\ ~WhileGuard(runner, Vertices(wg)[i], idom)
  /\ j < Len(InEdges(wg, Vertices(wg)[i]))
  /\ j' = j + 1
  /\ runner' = InEdges(wg, Vertices(wg)[i])[j + 1]
  /\ df' = DfAt(df, runner')
  /\ UNCHANGED <<g, entry, exit, call, pc, wg, wentry, idom, i, outs>>

\* the while loop is left; the next in-edge e of n, runner = source(e, g)
NextInEdge ==
  /\ pc = "loop"
  /\ ~WhileGuard(runner, Vertices(wg)[i], idom)
  /\ j < Len(InEdges(wg, Vertices(wg)[i]))
  /\ j' = j + 1
  /\ runner' = InEdges(wg, Vertices(wg)[i])[j + 1]
  /\ UNCHANGED <<g, entry, exit, call, pc, wg, wentry, idom, df, i, outs>>

\* the in-edges of n are exhausted; the next vertex n
NextVertex ==
  /\ pc = "loop"
  /\ ~WhileGuard(runner, Vertices(wg)[i], idom)
  /\ j = Len(InEdges(wg, Vertices(wg)[i]))
  /\ i < Len(Vertices(wg))
  /\ i' = i + 1
  /\ j' = 0
  /\ runner' = NullVertex
  /\ UNCHANGED <<g, entry, exit, call, pc, wg, wentry, idom, df, outs>>

\* the vertices are exhausted: the "dominance" log, and return
Finish ==
  /\ pc = "loop"
  /\ ~WhileGuard(runner, Vertices(wg)[i], idom)
  /\ j = Len(InEdges(wg, Vertices(wg)[i]))
  /\ i = Len(Vertices(wg))
  /\ outs' = Append(outs, <<"dominance", df>>)
  /\ pc' = "done"
  /\ UNCHANGED <<g, entry, exit, call, wg, wentry, idom, df, i, j, runner>>

Next ==
  \/ Dominance
  \/ PostDominance
  \/ DominatorTree
  \/ WhileBody
  \/ NextInEdge
  \/ NextVertex
  \/ Finish

Spec == Init /\ [][Next]_vars

WideSpec == WideInit /\ [][Next]_vars

\* a step of the frontier loops
LoopStep == WhileBody \/ NextInEdge \/ NextVertex \/ Finish

\* the call is synchronous and single-threaded: once in the frontier loops, it
\* takes the next step of the loops whenever there is one
FairSpec == Spec /\ WF_vars(LoopStep)

(***************************************************************************)
(* The relations of the header comment, by path enumeration.               *)
(***************************************************************************)

\* the nodes that paths from the nodes of S reach without entering `avoid`
RECURSIVE Closure(_, _, _)
Closure(G, S, avoid) ==
  LET T == S \cup {e[2] : e \in {d \in G.E : d[1] \in S /\ d[2] # avoid}}
  IN  IF T = S THEN S ELSE Closure(G, T, avoid)

ReachAvoiding(G, from, avoid) ==
  IF from = avoid THEN {} ELSE Closure(G, {from}, avoid)

Reachable(G, from) == Closure(G, {from}, NullVertex)

\* u dominates v: all paths from entry to v pass through u
Dominates(G, en, u, v) == v \notin ReachAvoiding(G, en, u)

\* u strictly dominates v
StrictlyDominates(G, en, u, v) == u # v /\ Dominates(G, en, u, v)

\* u is the immediate dominator of v: it strictly dominates v, and every
\* other strict dominator of v dominates it
IsIdom(G, en, u, v) ==
  /\ StrictlyDominates(G, en, u, v)
  /\ \A d \in NodesOf(G) :
       StrictlyDominates(G, en, d, v) /\ d # u => Dominates(G, en, d, u)

\* m is in the dominance frontier of k
InFrontier(G, en, k, m) ==
  /\ ~StrictlyDominates(G, en, k, m)
  /\ \E p \in NodesOf(G) : <<p, m>> \in G.E /\ Dominates(G, en, k, p)

\* the frontier of k that the frontier map holds: a missing key reads as empty
FrontierOf(dfm, k) == IF k \in DOMAIN dfm THEN Range(dfm[k]) ELSE {}

\* dominator_tree has returned
TreeDone == pc \in {"loop", "done"} /\ wentry # NullVertex

\* the frontier loops have run to completion
LoopDone == pc = "done" /\ wentry # NullVertex

(***************************************************************************)
(* C1: after dominator_tree(G, entry, idom), every node v reachable from   *)
(* entry other than entry has idom[v] # v and idom[v] its immediate        *)
(* dominator.                                                              *)
(***************************************************************************)
C1_IdomIsImmediateDominator ==
  TreeDone =>
    \A v \in Reachable(wg, wentry) \ {wentry} :
      /\ idom[v] # v
      /\ idom[v] \in NodesOf(wg)
      /\ IsIdom(wg, wentry, idom[v], v)

(***************************************************************************)
(* C2: after dominator_tree on an empty idom, idom has one entry for every *)
(* vertex, and idom[v] is the sentinel iff v is the entry or v is not      *)
(* reachable from the entry.                                               *)
(***************************************************************************)
C2_IdomSentinel ==
  TreeDone =>
    /\ DOMAIN idom = NodesOf(wg)
    /\ \A v \in NodesOf(wg) :
         idom[v] = NullVertex <=> (v = wentry \/ v \notin Reachable(wg, wentry))

(***************************************************************************)
(* C3: after dominance(G, DF), m is in DF[k] iff k does not strictly       *)
(* dominate m and some predecessor of m is dominated by k.                 *)
(***************************************************************************)
C3_FrontierDefinition ==
  LoopDone =>
    \A k \in NodesOf(wg) : \A m \in NodesOf(wg) :
      m \in FrontierOf(df, k) <=> InFrontier(wg, wentry, k, m)

(***************************************************************************)
(* C4, as claimed: after dominance(G, DF) every vertex of G is a key of    *)
(* DF.                                                                     *)
(***************************************************************************)
C4_EveryVertexIsKey ==
  (LoopDone /\ call = "dominance") => DOMAIN df = NodesOf(wg)

(***************************************************************************)
(* C4, amended: called with an empty DF, dominance(G, DF) leaves as keys   *)
(* of DF only vertices of G whose frontier is not empty; each key holds a  *)
(* non-empty list, and a vertex with an empty frontier is not a key (a     *)
(* vertex v with no in-edge is on no frontier, and is a key only when a    *)
(* walk from another vertex's predecessor starts at or passes v).          *)
(***************************************************************************)
C4_KeysHaveMembers ==
  /\ DOMAIN df \subseteq NodesOf(wg)
  /\ \A k \in DOMAIN df : Len(df[k]) >= 1
  /\ LoopDone => \A k \in NodesOf(wg) : FrontierOf(df, k) = {} <=> k \notin DOMAIN df

C4_Witness ==
  /\ LoopDone
  /\ call = "dominance"
  /\ DOMAIN df # {}
  /\ \E v \in NodesOf(wg) : InEdges(wg, v) = <<>> /\ v \notin DOMAIN df

(***************************************************************************)
(* C5: when G has no exit node, post_dominance(G, rdf) returns at once     *)
(* with rdf empty: no reversed view, no dominator tree, no frontier loop,  *)
(* no diagnostics.                                                         *)
(***************************************************************************)
C5_NoExitNoOp ==
  (call = "post_dominance" /\ exit = NullVertex) =>
    /\ pc = "done"
    /\ df = EmptyDf
    /\ wg = NoGraph
    /\ wentry = NullVertex
    /\ idom = EmptyMap
    /\ i = 0 /\ j = 0 /\ runner = NullVertex
    /\ outs = <<>>

C5_Witness ==
  /\ call = "post_dominance"
  /\ exit = NullVertex
  /\ pc = "done"
  /\ g.E # {}

(***************************************************************************)
(* C6: when G has an exit node, post_dominance(G) yields the idom and      *)
(* frontier maps of the dominance computation on G with every edge's       *)
(* source and target swapped and G's exit as entry; G is not modified.     *)
(***************************************************************************)
Swapped(G) == [n |-> G.n, E |-> {<<b, a>> : <<a, b>> \in G.E}]

C6_PostDominanceIsDominanceOfReverse ==
  /\ [](call = "post_dominance" /\ exit # NullVertex /\ pc = "done" =>
          /\ idom = DominatorTreeOf(Swapped(g), exit, EmptyMap)
          /\ df = DominanceOf(Swapped(g), exit))
  /\ [][g' = g]_vars

C6_Witness ==
  /\ call = "post_dominance"
  /\ exit # NullVertex
  /\ pc = "done"
  /\ Swapped(g) # g
  /\ df # EmptyDf
  /\ df # DominanceOf(g, exit)

(***************************************************************************)
(* C7: a self-loop edge n -> n contributes nothing: the idom map and the   *)
(* frontier map computed for a graph with the edge equal those computed    *)
(* for the graph without it, and n is in no frontier because of it.        *)
(***************************************************************************)
WithoutEdge(G, e) == [n |-> G.n, E |-> G.E \ {e}]

C7_SelfLoopContributesNothing ==
  LoopDone =>
    \A n \in NodesOf(wg) :
      <<n, n>> \in wg.E =>
        /\ idom = DominatorTreeOf(WithoutEdge(wg, <<n, n>>), wentry, EmptyMap)
        /\ df = DominanceOf(WithoutEdge(wg, <<n, n>>), wentry)
        /\ n \notin FrontierOf(df, n)

C7_Witness ==
  /\ LoopDone
  /\ df # EmptyDf
  /\ \E n \in Reachable(wg, wentry) \ {wentry} :
       /\ <<n, n>> \in wg.E
       /\ \E k \in DOMAIN df : n \in Range(df[k])

(***************************************************************************)
(* C8: dominator_tree and dominance terminate on every graph with a valid  *)
(* entry: every call reaches its return, so every runner walk ends.        *)
(***************************************************************************)
C8_Terminates == (pc = "loop") ~> (pc = "done")

C8_Witness ==
  /\ LoopDone
  /\ \E u \in NodesOf(wg) : u # wentry /\ <<u, wentry>> \in wg.E
  /\ Reachable(wg, wentry) # NodesOf(wg)
  /\ df # EmptyDf

(***************************************************************************)
(* C9: at every point of the frontier loops, and in the returned map, no   *)
(* node occurs more than once in any DF[k].                                *)
(***************************************************************************)
C9_NoDuplicates ==
  \A k \in DOMAIN df :
    \A a \in 1..Len(df[k]) : \A b \in 1..Len(df[k]) : df[k][a] = df[k][b] => a = b

C9_Witness ==
  /\ pc = "loop"
  /\ WhileGuard(runner, Vertices(wg)[i], idom)
  /\ runner \in DOMAIN df
  /\ Vertices(wg)[i] \in Range(df[runner])

(***************************************************************************)
(* C10: after dominance(G, DF), the frontier of a node k not reachable     *)
(* from the entry is exactly the set of k's successors other than k, and   *)
(* the frontier of a reachable node holds only reachable nodes.            *)
(***************************************************************************)
C10_UnreachableFrontiers ==
  LoopDone =>
    \A k \in NodesOf(wg) :
      IF k \in Reachable(wg, wentry)
      THEN FrontierOf(df, k) \subseteq Reachable(wg, wentry)
      ELSE FrontierOf(df, k) = {n \in NodesOf(wg) : <<k, n>> \in wg.E /\ n # k}

C10_Witness ==
  /\ LoopDone
  /\ \E k \in NodesOf(wg) \ Reachable(wg, wentry) :
       /\ FrontierOf(df, k) # {}
       /\ <<k, k>> \in wg.E
       /\ FrontierOf(df, k) \cap Reachable(wg, wentry) # {}
  /\ \E k \in Reachable(wg, wentry) : FrontierOf(df, k) # {}

====
